---- MODULE Spec2Model ----
(***************************************************************************)
(* Model of the question-answering core of genai-legal-assistant            *)
(* (src/chatbot.py): SmartLegalChatbot (lazy initialization, query routing, *)
(* the RAG -> direct -> digest -> static fallback chain, the minimum        *)
(* interval rate limiter) and its wrapper ConstitutionChatbot.              *)
(*                                                                          *)
(* The Retrieval Gateway (Pinecone) and the Generation Gateway (Gemini) are *)
(* external: each call to them is one step whose outcome (success, raise,   *)
(* the documents returned) is chosen nondeterministically.  Wall-clock time *)
(* is the variable now, in units of min_call_interval; it may advance       *)
(* between any two steps.                                                   *)
(*                                                                          *)
(* Further specifications over their own variables: SumSpec                 *)
(* (_summarize_content), FmtSpec (_format_rag_answer), ConcSpec             *)
(* (get_chatbot() and the lazy initialization from concurrent contexts) and *)
(* UISpec (src/main.py: initialize_chatbot with its background thread,      *)
(* delete_vector_store, process_question).                                  *)
(***************************************************************************)
EXTENDS Integers, Sequences, FiniteSets, TLC

(***************************************************************************)
(* Bounds of the model.                                                     *)
(***************************************************************************)
MaxTime == 3        \* the clock runs over 1..MaxTime
MaxPage == 2        \* numeric page identifiers are 1..MaxPage
MaxDocs == 2        \* a similarity search returns at most MaxDocs documents
MaxLen == 6         \* _summarize_content is applied to contents of at most MaxLen characters
MaxCap == 5         \* ... with max_length in 1..MaxCap
NumContexts == 2    \* concurrent execution contexts calling get_chatbot() and query()
FmtDocs == 6        \* _format_rag_answer is applied to lists of at most FmtDocs documents
FmtPages == 6       \* ... whose numeric page identifiers are 1..FmtPages

(***************************************************************************)
(* Program constants.                                                       *)
(***************************************************************************)
min_call_interval == 1      \* chatbot.py:38
TopK == 6                   \* chatbot.py:99   similarity_search(question, k=6)
FallbackK == 3              \* chatbot.py:261  similarity_search(question, k=3)
PagesShown == 5             \* chatbot.py:243  unique_pages[:5]
NA == -1                    \* chatbot.py:237  the default 'N/A' (a string, not a number)

(***************************************************************************)
(* Documents.  A document's metadata is a function that may or may not have *)
(* the key "page".                                                          *)
(***************************************************************************)
Documents ==
    {[metadata |-> [x \in {"page"} |-> p]] : p \in 1..MaxPage}
        \cup {[metadata |-> [x \in {} |-> 0]]}

\* doc.metadata.get('page', 'N/A')
PageOf(doc) ==
    IF "page" \in DOMAIN doc.metadata THEN doc.metadata["page"] ELSE NA

Min(a, b) == IF a < b THEN a ELSE b

\* The results similarity_search(question, k) may return: at most k documents.
SearchResults(k) ==
    UNION {[1..n -> Documents] : n \in 0..Min(k, MaxDocs)}

\* set(doc.metadata.get('page', 'N/A') for doc in docs)
PageSet(d) == {PageOf(d[i]) : i \in 1..Len(d)}

\* sorted() of a list that holds the string 'N/A' next to a number raises
\* TypeError; a list of one type is sorted.
SortedRaises(S) == NA \in S /\ S \ {NA} # {}

SetMin(S) == CHOOSE x \in S : \A y \in S : x <= y

RECURSIVE Sorted(_)
Sorted(S) ==
    IF S = {} THEN <<>> ELSE <<SetMin(S)>> \o Sorted(S \ {SetMin(S)})

\* s[:n]
Take(s, n) == SubSeq(s, 1, Min(n, Len(s)))

(***************************************************************************)
(* Answers.  An answer text is modelled by what the formatter puts in it:   *)
(* its kind (which fixed frame or footer it carries), the page identifiers  *)
(* it lists, in order, and the document count it states.                    *)
(***************************************************************************)
Answer(kind, pages, count) == [kind |-> kind, pages |-> pages, count |-> count]

NoAnswer == Answer("none", <<>>, 0)

AnswerKinds == {"rag", "direct", "digest", "nodocs", "unavailable", "initfailed"}

\* The outcome of a formatter or of a whole call: returned a value, or raised.
Returned(answer, srcs) ==
    [status |-> "returned", ok |-> TRUE, answer |-> answer, source_documents |-> srcs]

Raised ==
    [status |-> "raised", ok |-> FALSE, answer |-> NoAnswer, source_documents |-> <<>>]

ReturnedBool(b) ==
    [status |-> "returned", ok |-> b, answer |-> NoAnswer, source_documents |-> <<>>]

Running ==
    [status |-> "running", ok |-> FALSE, answer |-> NoAnswer, source_documents |-> <<>>]

\* Variant: the emptiness test is dropped.
has_relevant_documents_always(d) == TRUE

\* _has_relevant_documents(question, docs)
has_relevant_documents(d) == IF d = <<>> THEN FALSE ELSE TRUE

\* Variant: every distinct page is listed, without the [:5] slice.
format_rag_answer_nocap(d) ==
    IF SortedRaises(PageSet(d))
    THEN Raised
    ELSE Returned(Answer("rag", Sorted(PageSet(d)), Len(d)), d)

\* _format_rag_answer(answer, docs): raises when sorted() does.
format_rag_answer(d) ==
    IF SortedRaises(PageSet(d))
    THEN Raised
    ELSE Returned(Answer("rag", Take(Sorted(PageSet(d)), PagesShown), Len(d)), d)

\* _format_direct_answer(answer, question)
format_direct_answer == Returned(Answer("direct", <<>>, 0), <<>>)

\* The static result of query() when the lazy initialization failed.
init_failed_result == Returned(Answer("initfailed", <<>>, 0), <<>>)

\* Variant: no try/except around the terminal stage.
fallback_approach_unguarded(searchOk, d) ==
    IF ~searchOk
    THEN Raised
    ELSE IF d # <<>>
         THEN Returned(Answer("digest", [i \in 1..Len(d) |-> PageOf(d[i])], Len(d)), d)
         ELSE Returned(Answer("nodocs", <<>>, 0), <<>>)

\* Variant: a failed search is swallowed into an empty result.
fallback_approach_swallow(searchOk, d) ==
    IF searchOk /\ d # <<>>
    THEN Returned(Answer("digest", [i \in 1..Len(d) |-> PageOf(d[i])], Len(d)), d)
    ELSE Returned(Answer("nodocs", <<>>, 0), <<>>)

\* Variant: the `if docs` test is dropped.
fallback_approach_nocheck(searchOk, d) ==
    IF ~searchOk
    THEN Returned(Answer("unavailable", <<>>, 0), <<>>)
    ELSE Returned(Answer("digest", [i \in 1..Len(d) |-> PageOf(d[i])], Len(d)), d)

\* Variant: the digest is returned without its documents.
fallback_approach_nosources(searchOk, d) ==
    IF ~searchOk
    THEN Returned(Answer("unavailable", <<>>, 0), <<>>)
    ELSE IF d # <<>>
         THEN Returned(Answer("digest", [i \in 1..Len(d) |-> PageOf(d[i])], Len(d)), <<>>)
         ELSE Returned(Answer("nodocs", <<>>, 0), <<>>)

\* _fallback_approach(question), given the outcome of its k=3 search.
fallback_approach(searchOk, d) ==
    IF ~searchOk
    THEN Returned(Answer("unavailable", <<>>, 0), <<>>)
    ELSE IF d # <<>>
         THEN Returned(Answer("digest", [i \in 1..Len(d) |-> PageOf(d[i])], Len(d)), d)
         ELSE Returned(Answer("nodocs", <<>>, 0), <<>>)

\* Variant: the except clause of _rag_approach goes to the terminal fallback.
rag_except_stage_skip == "fallback"

\* _rag_approach: the stage its except clause hands over to.
rag_except_stage == "direct_gen"

\* Variant: a failed direct generation is tried again.
direct_except_stage_retry == "direct_gen"

\* _direct_gemini_approach: the stage its except clause hands over to.
direct_except_stage == "fallback"

\* Variant: a failed search is treated as an empty result.
query_except_stage_direct == "direct_gen"

\* query(): the stage its except clause hands over to.
query_except_stage == "fallback"

(***************************************************************************)
(* State.                                                                   *)
(***************************************************************************)
VARIABLES
    initialized,        \* SmartLegalChatbot._initialized
    qa_initialized,     \* ConstitutionChatbot._initialized
    vector_store,       \* SmartLegalChatbot.vector_store has been assigned
    client,             \* SmartLegalChatbot.client has been assigned
    last_call_time,     \* SmartLegalChatbot.last_call_time
    now,                \* time.time()
    pc,                 \* position of the call in progress, "idle" if none
    caller,             \* the public method in progress or last finished
    docs,               \* query(): the local docs of the k=6 search
    fallback_docs,      \* _fallback_approach(): the local docs of the last k=3 search
    ret,                \* what the call in progress / last finished gave its caller
    calls,              \* gateway calls of the call in progress / last finished
    gens                \* times of the last two generate_content calls of the process

coreVars == <<initialized, qa_initialized, vector_store, client, last_call_time, now,
              pc, caller, docs, fallback_docs, ret, calls, gens>>

\* One application of _summarize_content(content, max_length).
VARIABLES
    sum_content,        \* the argument content, a sequence of characters
    sum_cap,            \* the argument max_length
    sum_result,         \* the value returned
    sum_pc              \* "ready" before the application, "done" after it

sumVars == <<sum_content, sum_cap, sum_result, sum_pc>>

\* The module global of chatbot.py and the chatbots made, as seen by
\* concurrent execution contexts.  Instances are numbered from 1; 0 is None.
VARIABLES
    chatbot_instance,   \* the global _chatbot_instance
    created,            \* how many ConstitutionChatbot() have been constructed
    inst_initialized,   \* per instance: its SmartLegalChatbot._initialized
    inst_smokes,        \* per instance: smoke-test generation calls made on it
    t_pc,               \* per context: its position
    t_new,              \* per context: the instance it constructed, 0 if none
    t_got               \* per context: what get_chatbot() returned to it, 0 if not yet

concVars == <<chatbot_instance, created, inst_initialized, inst_smokes, t_pc, t_new, t_got>>

\* main.py: one UI session running initialize_chatbot(), and the background
\* thread it starts.
VARIABLES
    ui_pc,                  \* position of the UI function in progress: "idle", "poll"
                            \* (initialize_chatbot), "asking", "answered" (process_question)
    ui_waited,              \* time.time() - start_time in the polling loop
    th_pc,                  \* init_thread: "none", "started", "running", "dead"
    init_error,             \* init_error[0] is set
    ui_timed_out,           \* the call showed "Chatbot initialization timed out"
    ss_chatbot,             \* st.session_state.chatbot is set
    ss_chatbot_initialized, \* st.session_state.chatbot_initialized
    ss_setup_complete,      \* st.session_state.setup_complete
    ui_ret,                 \* what the last initialize_chatbot() returned
    ui_deleted,             \* "never"; "pending" since a successful delete_vector_store();
                            \* "reinitialized" once initialize_chatbot() returned True after it
    pq_log                  \* what the last two process_question() calls did, since that delete

uiVars == <<ui_pc, ui_waited, th_pc, init_error, ui_timed_out,
            ss_chatbot, ss_chatbot_initialized, ss_setup_complete, ui_ret,
            ui_deleted, pq_log>>

\* _format_rag_answer on its own: the documents it is given and its outcome.
VARIABLES
    fmt_docs,       \* the docs argument
    fmt_result,     \* the outcome, Running before the call
    fmt_pc          \* "idle" (not in use), "ready", "done"

fmtVars == <<fmt_docs, fmt_result, fmt_pc>>

auxVars == <<sumVars, concVars, uiVars, fmtVars>>

vars == <<coreVars, auxVars>>

Call(site, ok, n) == [site |-> site, ok |-> ok, n |-> n]

\* A generate_content call is issued at time now.
NoteGen(g) == IF Len(g) < 2 THEN Append(g, now) ELSE <<g[2], now>>

CoreInit ==
    /\ initialized = FALSE
    /\ qa_initialized = FALSE
    /\ vector_store = FALSE
    /\ client = FALSE
    /\ last_call_time = 0
    /\ now = 1
    /\ pc = "idle"
    /\ caller = "none"
    /\ docs = <<>>
    /\ fallback_docs = <<>>
    /\ ret = Running
    /\ calls = <<>>
    /\ gens = <<>>

\* No application of _summarize_content is under way.
SumIdle ==
    /\ sum_content = <<>>
    /\ sum_cap = 0
    /\ sum_result = <<>>
    /\ sum_pc = "idle"

Contexts == 1..NumContexts

\* No context has started.
ConcIdle ==
    /\ chatbot_instance = 0
    /\ created = 0
    /\ inst_initialized = [i \in Contexts |-> FALSE]
    /\ inst_smokes = [i \in Contexts |-> 0]
    /\ t_pc = [t \in Contexts |-> "idle"]
    /\ t_new = [t \in Contexts |-> 0]
    /\ t_got = [t \in Contexts |-> 0]

\* initialize_session_state() in a fresh process: no chatbot, nothing set up.
UIIdle ==
    /\ ui_pc = "idle"
    /\ ui_waited = 0
    /\ th_pc = "none"
    /\ init_error = FALSE
    /\ ui_timed_out = FALSE
    /\ ss_chatbot = FALSE
    /\ ss_chatbot_initialized = FALSE
    /\ ss_setup_complete = FALSE
    /\ ui_ret = "none"
    /\ ui_deleted = "never"
    /\ pq_log = <<>>

\* The formatter is not in use.
FmtIdle ==
    /\ fmt_docs = <<>>
    /\ fmt_result = Running
    /\ fmt_pc = "idle"

AuxIdle == SumIdle /\ ConcIdle /\ UIIdle /\ FmtIdle

Init == CoreInit /\ AuxIdle

(***************************************************************************)
(* Time passes: between any two steps, and while no call is in progress.    *)
(***************************************************************************)
Tick ==
    /\ now < MaxTime
    /\ now' = now + 1
    /\ UNCHANGED <<initialized, qa_initialized, vector_store, client,
                   last_call_time, pc, caller, docs, ret, calls, gens>>
    /\ UNCHANGED fallback_docs

(***************************************************************************)
(* Entry points.                                                            *)
(***************************************************************************)
\* Variant: the sequence starts at the Generation Gateway.
initialize_entry_skip(init) == IF init THEN "return_true" ELSE "init_smoke"

\* Variant: no early return.
initialize_entry_rerun(init) == "init_index"

\* initialize(): `if self._initialized: return True`, else the sequence.
initialize_entry(init) == IF init THEN "return_true" ELSE "init_index"

\* query(): `if not self._initialized: success = self.initialize()`.
query_entry(init) == IF init THEN "rate" ELSE initialize_entry(init)

\* Variant: the result of initialize() is ignored.
query_after_initialize_ignore(success) == "rate"

\* query(): `if not success: return {...}`, else on to the rate limiter.
query_after_initialize(success) == IF success THEN "rate" ELSE "return_initfailed"

\* SmartLegalChatbot.query(question), also reached through ConstitutionChatbot.query.
Query ==
    /\ pc = "idle"
    /\ now < MaxTime
    /\ caller' = "query"
    /\ calls' = <<>>
    /\ docs' = <<>>
    /\ fallback_docs' = <<>>
    /\ ret' = Running
    /\ pc' = query_entry(initialized)
    /\ UNCHANGED <<initialized, qa_initialized, vector_store, client,
                   last_call_time, now, gens>>

\* SmartLegalChatbot.initialize() called by itself.
Initialize ==
    /\ pc = "idle"
    /\ now < MaxTime
    /\ caller' = "initialize"
    /\ calls' = <<>>
    /\ IF initialize_entry(initialized) = "return_true"
       THEN pc' = "idle" /\ ret' = ReturnedBool(TRUE)
       ELSE pc' = initialize_entry(initialized) /\ ret' = Running
    /\ UNCHANGED <<initialized, qa_initialized, vector_store, client,
                   last_call_time, now, docs, gens>>
    /\ UNCHANGED fallback_docs

\* ConstitutionChatbot.initialize_qa_chain()
InitializeQaChain ==
    /\ pc = "idle"
    /\ now < MaxTime
    /\ caller' = "initialize_qa_chain"
    /\ calls' = <<>>
    /\ IF qa_initialized
       THEN pc' = "idle" /\ ret' = ReturnedBool(TRUE) /\ UNCHANGED qa_initialized
       ELSE IF initialize_entry(initialized) = "return_true"
            THEN pc' = "idle" /\ ret' = ReturnedBool(TRUE) /\ qa_initialized' = TRUE
            ELSE /\ pc' = initialize_entry(initialized)
                 /\ ret' = Running
                 /\ UNCHANGED qa_initialized
    /\ UNCHANGED <<initialized, vector_store, client, last_call_time, now, docs, gens>>
    /\ UNCHANGED fallback_docs

(***************************************************************************)
(* initialize(): the sequence, one step per external call.  InitFinish is   *)
(* the return of initialize() to whoever called it.                         *)
(***************************************************************************)
\* Variant: the wrapper sets its flag whatever initialize() returned.
InitFinish_optimistic(success) ==
    IF caller = "query"
    THEN /\ IF query_after_initialize(success) = "rate"
            THEN pc' = "rate" /\ ret' = ret
            ELSE pc' = "idle" /\ ret' = init_failed_result
         /\ UNCHANGED qa_initialized
    ELSE /\ pc' = "idle"
         /\ ret' = ReturnedBool(success)
         /\ qa_initialized' =
                IF caller = "initialize_qa_chain" THEN TRUE ELSE qa_initialized

InitFinish(success) ==
    IF caller = "query"
    THEN /\ IF query_after_initialize(success) = "rate"
            THEN pc' = "rate" /\ ret' = ret
            ELSE pc' = "idle" /\ ret' = init_failed_result
         /\ UNCHANGED qa_initialized
    ELSE /\ pc' = "idle"
         /\ ret' = ReturnedBool(success)
         /\ qa_initialized' =
                IF caller = "initialize_qa_chain" THEN success ELSE qa_initialized

\* self.vector_manager.check_index_exists(); it returns False when it fails.
InitIndex ==
    /\ pc = "init_index"
    /\ \E exists \in BOOLEAN :
          /\ calls' = Append(calls, Call("index", exists, 0))
          /\ IF exists
             THEN pc' = "init_store" /\ UNCHANGED <<ret, qa_initialized>>
             ELSE InitFinish(FALSE)
    /\ UNCHANGED <<initialized, vector_store, client, last_call_time, now,
                   caller, docs, gens>>
    /\ UNCHANGED fallback_docs

\* self.vector_store = self.vector_manager.get_vector_store(); it raises when it fails.
InitStore ==
    /\ pc = "init_store"
    /\ \E ok \in BOOLEAN :
          /\ calls' = Append(calls, Call("store", ok, 0))
          /\ IF ok
             THEN vector_store' = TRUE /\ pc' = "init_key" /\ UNCHANGED <<ret, qa_initialized>>
             ELSE UNCHANGED vector_store /\ InitFinish(FALSE)
    /\ UNCHANGED <<initialized, client, last_call_time, now, caller, docs, gens>>
    /\ UNCHANGED fallback_docs

\* api_key = os.getenv("GOOGLE_API_KEY"); `if not api_key: raise ValueError`.
InitKey ==
    /\ pc = "init_key"
    /\ \E present \in BOOLEAN :
          /\ calls' = Append(calls, Call("key", present, 0))
          /\ IF present
             THEN pc' = "init_smoke" /\ UNCHANGED <<ret, qa_initialized>>
             ELSE InitFinish(FALSE)
    /\ UNCHANGED <<initialized, vector_store, client, last_call_time, now,
                   caller, docs, gens>>
    /\ UNCHANGED fallback_docs

\* Variant: the flag is set before the smoke test is made.
InitSmoke_flagfirst ==
    /\ pc = "init_smoke"
    /\ client' = TRUE
    /\ gens' = NoteGen(gens)
    /\ initialized' = TRUE
    /\ \E ok \in BOOLEAN :
          /\ calls' = Append(calls, Call("smoke", ok, 0))
          /\ InitFinish(ok)
    /\ UNCHANGED <<vector_store, last_call_time, now, caller, docs>>
    /\ UNCHANGED fallback_docs

\* genai.configure; self.client = GenerativeModel(...); generate_content("Say hello");
\* self._initialized = True.
InitSmoke ==
    /\ pc = "init_smoke"
    /\ client' = TRUE
    /\ gens' = NoteGen(gens)
    /\ \E ok \in BOOLEAN :
          /\ calls' = Append(calls, Call("smoke", ok, 0))
          /\ initialized' = IF ok THEN TRUE ELSE initialized
          /\ InitFinish(ok)
    /\ UNCHANGED <<vector_store, last_call_time, now, caller, docs>>
    /\ UNCHANGED fallback_docs

(***************************************************************************)
(* query(): the answer pipeline, one step per external call.                *)
(***************************************************************************)
\* time.sleep(self.min_call_interval - time_since_last_call) if the last
\* recorded call is less than min_call_interval ago.
sleep_time(t, last) ==
    IF t - last < min_call_interval THEN min_call_interval - (t - last) ELSE 0

RateLimit ==
    /\ pc = "rate"
    /\ now' = now + sleep_time(now, last_call_time)
    /\ calls' = IF sleep_time(now, last_call_time) > 0
                THEN Append(calls, Call("sleep", TRUE, 0))
                ELSE calls
    /\ pc' = "search6"
    /\ UNCHANGED <<initialized, qa_initialized, vector_store, client,
                   last_call_time, caller, docs, ret, gens>>
    /\ UNCHANGED fallback_docs

\* Variant: only documents that carry a page count as relevant.
first_stage_paged(d) ==
    IF \E i \in 1..Len(d) : PageOf(d[i]) # NA THEN "rag_gen" ELSE "direct_gen"

\* The stage query() takes after a successful k=6 search.
first_stage(d) == IF has_relevant_documents(d) THEN "rag_gen" ELSE "direct_gen"

\* docs = self.vector_store.similarity_search(question, k=6)
Search6 ==
    /\ pc = "search6"
    /\ \/ /\ calls' = Append(calls, Call("search6", FALSE, 0))
          /\ pc' = query_except_stage
          /\ UNCHANGED docs
       \/ \E d \in SearchResults(TopK) :
             /\ calls' = Append(calls, Call("search6", TRUE, Len(d)))
             /\ docs' = d
             /\ pc' = first_stage(d)
    /\ UNCHANGED <<initialized, qa_initialized, vector_store, client,
                   last_call_time, now, caller, ret, gens>>
    /\ UNCHANGED fallback_docs

\* self.last_call_time = time.time(), the statement after generate_content:
\* reached only when the call returned.
stamp(genOk, last, t) == IF genOk THEN t ELSE last

\* The try body of _rag_approach: generate_content, then _format_rag_answer.
rag_approach(genOk, d) == IF genOk THEN format_rag_answer(d) ELSE Raised

\* Variant: the direct answer reports the documents of the k=6 search.
direct_gemini_approach_keepdocs(genOk) ==
    IF genOk THEN Returned(Answer("direct", <<>>, 0), docs) ELSE Raised

\* The try body of _direct_gemini_approach.
direct_gemini_approach(genOk) == IF genOk THEN format_direct_answer ELSE Raised

\* _rag_approach(question, docs)
RagGen ==
    /\ pc = "rag_gen"
    /\ gens' = NoteGen(gens)
    /\ \E genOk \in BOOLEAN :
          /\ calls' = Append(calls, Call("rag_gen", genOk, 0))
          /\ last_call_time' = stamp(genOk, last_call_time, now)
          /\ IF rag_approach(genOk, docs).status = "returned"
             THEN pc' = "idle" /\ ret' = rag_approach(genOk, docs)
             ELSE pc' = rag_except_stage /\ UNCHANGED ret
    /\ UNCHANGED <<initialized, qa_initialized, vector_store, client, now,
                   caller, docs>>
    /\ UNCHANGED fallback_docs

\* _direct_gemini_approach(question)
DirectGen ==
    /\ pc = "direct_gen"
    /\ gens' = NoteGen(gens)
    /\ \E genOk \in BOOLEAN :
          /\ calls' = Append(calls, Call("direct_gen", genOk, 0))
          /\ last_call_time' = stamp(genOk, last_call_time, now)
          /\ IF direct_gemini_approach(genOk).status = "returned"
             THEN pc' = "idle" /\ ret' = direct_gemini_approach(genOk)
             ELSE pc' = direct_except_stage /\ UNCHANGED ret
    /\ UNCHANGED <<initialized, qa_initialized, vector_store, client, now,
                   caller, docs>>
    /\ UNCHANGED fallback_docs

\* _fallback_approach(question): the k=3 search and what is made of it.
Fallback ==
    /\ pc = "fallback"
    /\ \/ /\ calls' = Append(calls, Call("search3", FALSE, 0))
          /\ ret' = fallback_approach(FALSE, <<>>)
          /\ UNCHANGED fallback_docs
       \/ \E d \in SearchResults(FallbackK) :
             /\ calls' = Append(calls, Call("search3", TRUE, Len(d)))
             /\ fallback_docs' = d
             /\ ret' = fallback_approach(TRUE, d)
    /\ pc' = "idle"
    /\ UNCHANGED <<initialized, qa_initialized, vector_store, client,
                   last_call_time, now, caller, docs, gens>>

Next ==
    \/ Tick /\ UNCHANGED auxVars
    \/ Query /\ UNCHANGED auxVars
    \/ Initialize /\ UNCHANGED auxVars
    \/ InitializeQaChain /\ UNCHANGED auxVars
    \/ InitIndex /\ UNCHANGED auxVars
    \/ InitStore /\ UNCHANGED auxVars
    \/ InitKey /\ UNCHANGED auxVars
    \/ InitSmoke /\ UNCHANGED auxVars
    \/ RateLimit /\ UNCHANGED auxVars
    \/ Search6 /\ UNCHANGED auxVars
    \/ RagGen /\ UNCHANGED auxVars
    \/ DirectGen /\ UNCHANGED auxVars
    \/ Fallback /\ UNCHANGED auxVars

Spec == Init /\ [][Next]_vars

(***************************************************************************)
(* _summarize_content as a function of its arguments.  A string is a        *)
(* sequence of one-character strings; "." ends a sentence and " " is the    *)
(* whitespace that strip() removes.                                         *)
(***************************************************************************)
Chars == {"a", ".", " "}

\* The content of the documented example, "A. B. C. D."
ExampleContent == <<"A", ".", " ", "B", ".", " ", "C", ".", " ", "D", ".">>

Contents == UNION {[1..n -> Chars] : n \in 0..MaxLen} \cup {ExampleContent}

\* The index of the first "." of s, 0 if it has none.
FirstDot(s) ==
    IF \E i \in 1..Len(s) : s[i] = "."
    THEN CHOOSE i \in 1..Len(s) : s[i] = "." /\ \A j \in 1..(i - 1) : s[j] # "."
    ELSE 0

\* content.split('.')
RECURSIVE Split(_)
Split(s) ==
    IF FirstDot(s) = 0
    THEN <<s>>
    ELSE <<SubSeq(s, 1, FirstDot(s) - 1)>> \o Split(SubSeq(s, FirstDot(s) + 1, Len(s)))

RECURSIVE LStrip(_)
LStrip(s) == IF s # <<>> /\ Head(s) = " " THEN LStrip(Tail(s)) ELSE s

RECURSIVE RStrip(_)
RStrip(s) ==
    IF s # <<>> /\ s[Len(s)] = " " THEN RStrip(SubSeq(s, 1, Len(s) - 1)) ELSE s

\* s.strip()
Strip(s) == RStrip(LStrip(s))

\* The for loop of _summarize_content from sentence i on: a sentence is
\* added, with '. ' after it, while it is not blank and summary + sentence is
\* shorter than max_length; the first sentence that is not added ends the loop.
RECURSIVE Accumulate(_, _, _, _)
Accumulate(sentences, i, summary, max_length) ==
    IF i > Len(sentences)
    THEN summary
    ELSE IF Strip(sentences[i]) # <<>> /\ Len(summary \o sentences[i]) < max_length
         THEN Accumulate(sentences, i + 1, summary \o sentences[i] \o <<".", " ">>,
                         max_length)
         ELSE summary

\* Variant: the content is cut at max_length characters, as _prepare_context does.
summarize_content_hardcut(content, max_length) ==
    IF Len(content) <= max_length
    THEN content
    ELSE SubSeq(content, 1, max_length) \o <<".", ".">>

\* _summarize_content(content, max_length)
summarize_content(content, max_length) ==
    IF Len(content) <= max_length
    THEN content
    ELSE LET summary == Strip(Accumulate(Split(content), 1, <<>>, max_length))
         IN  IF Len(summary) < Len(content)
             THEN summary \o <<".", ".">>
             ELSE summary

SumInit ==
    /\ CoreInit
    /\ sum_content \in Contents
    /\ sum_cap \in 1..MaxCap
    /\ sum_result = <<>>
    /\ sum_pc = "ready"
    /\ ConcIdle
    /\ UIIdle
    /\ FmtIdle

Summarize ==
    /\ sum_pc = "ready"
    /\ sum_result' = summarize_content(sum_content, sum_cap)
    /\ sum_pc' = "done"
    /\ UNCHANGED <<sum_content, sum_cap, coreVars, concVars, uiVars, fmtVars>>

SumNext == Summarize

SumSpec == SumInit /\ [][SumNext]_vars

(***************************************************************************)
(* _format_rag_answer as a function of the retrieved documents: the lists   *)
(* a k=6 search can return, long enough for more than PagesShown distinct   *)
(* pages.  The RAG path calls it with at least one document.                *)
(***************************************************************************)
FmtDocuments ==
    {[metadata |-> [x \in {"page"} |-> p]] : p \in 1..FmtPages}
        \cup {[metadata |-> [x \in {} |-> 0]]}

FmtInputs == UNION {[1..n -> FmtDocuments] : n \in 1..Min(TopK, FmtDocs)}

FmtInit ==
    /\ CoreInit
    /\ SumIdle
    /\ ConcIdle
    /\ UIIdle
    /\ fmt_docs \in FmtInputs
    /\ fmt_result = Running
    /\ fmt_pc = "ready"

FormatRagAnswer ==
    /\ fmt_pc = "ready"
    /\ fmt_result' = format_rag_answer(fmt_docs)
    /\ fmt_pc' = "done"
    /\ UNCHANGED <<fmt_docs, coreVars, sumVars, concVars, uiVars>>

FmtNext == FormatRagAnswer

FmtSpec == FmtInit /\ [][FmtNext]_vars

(***************************************************************************)
(* Concurrent execution contexts.  Each context calls get_chatbot() and     *)
(* then query() on the chatbot it was given, up to the end of the lazy      *)
(* initialization.  A step is one read or write of shared state or one      *)
(* external call; the contexts' steps interleave freely, as nothing in      *)
(* chatbot.py takes a lock.                                                 *)
(***************************************************************************)
ConcInit ==
    /\ CoreInit
    /\ SumIdle
    /\ UIIdle
    /\ FmtIdle
    /\ chatbot_instance = 0
    /\ created = 0
    /\ inst_initialized = [i \in Contexts |-> FALSE]
    /\ inst_smokes = [i \in Contexts |-> 0]
    /\ t_pc = [t \in Contexts |-> "gc_check"]
    /\ t_new = [t \in Contexts |-> 0]
    /\ t_got = [t \in Contexts |-> 0]

\* get_chatbot(): `if _chatbot_instance is None:`
GcCheck(t) ==
    /\ t_pc[t] = "gc_check"
    /\ t_pc' = [t_pc EXCEPT ![t] = IF chatbot_instance = 0 THEN "gc_construct" ELSE "gc_return"]
    /\ UNCHANGED <<chatbot_instance, created, inst_initialized, inst_smokes, t_new, t_got>>

\* get_chatbot(): ConstitutionChatbot(), the right-hand side of the assignment.
GcConstruct(t) ==
    /\ t_pc[t] = "gc_construct"
    /\ created' = created + 1
    /\ t_new' = [t_new EXCEPT ![t] = created + 1]
    /\ t_pc' = [t_pc EXCEPT ![t] = "gc_assign"]
    /\ UNCHANGED <<chatbot_instance, inst_initialized, inst_smokes, t_got>>

\* get_chatbot(): `_chatbot_instance = ...`
GcAssign(t) ==
    /\ t_pc[t] = "gc_assign"
    /\ chatbot_instance' = t_new[t]
    /\ t_pc' = [t_pc EXCEPT ![t] = "gc_return"]
    /\ UNCHANGED <<created, inst_initialized, inst_smokes, t_new, t_got>>

\* get_chatbot(): `return _chatbot_instance`
GcReturn(t) ==
    /\ t_pc[t] = "gc_return"
    /\ t_got' = [t_got EXCEPT ![t] = chatbot_instance]
    /\ t_pc' = [t_pc EXCEPT ![t] = "q_entry"]
    /\ UNCHANGED <<chatbot_instance, created, inst_initialized, inst_smokes, t_new>>

\* query(): `if not self._initialized:`, the first read of the flag; with the
\* flag set the context goes on to the answer pipeline, which ends its part here.
CQueryEntry(t) ==
    /\ t_pc[t] = "q_entry"
    /\ t_pc' = [t_pc EXCEPT ![t] =
                  IF query_entry(inst_initialized[t_got[t]]) = "rate"
                  THEN "done"
                  ELSE "init_entry"]
    /\ UNCHANGED <<chatbot_instance, created, inst_initialized, inst_smokes, t_new, t_got>>

\* initialize(): `if self._initialized: return True`, the second read of the flag.
CInitEntry(t) ==
    /\ t_pc[t] = "init_entry"
    /\ t_pc' = [t_pc EXCEPT ![t] =
                  IF initialize_entry(inst_initialized[t_got[t]]) = "return_true"
                  THEN "done"
                  ELSE initialize_entry(inst_initialized[t_got[t]])]
    /\ UNCHANGED <<chatbot_instance, created, inst_initialized, inst_smokes, t_new, t_got>>

\* initialize(): check_index_exists, get_vector_store, the credential; a
\* failing step ends the sequence.
CInitStep(t) ==
    /\ t_pc[t] \in {"init_index", "init_store", "init_key"}
    /\ \E ok \in BOOLEAN :
          t_pc' = [t_pc EXCEPT ![t] =
                     IF ~ok THEN "done"
                     ELSE IF t_pc[t] = "init_index" THEN "init_store"
                     ELSE IF t_pc[t] = "init_store" THEN "init_key"
                     ELSE "init_smoke"]
    /\ UNCHANGED <<chatbot_instance, created, inst_initialized, inst_smokes, t_new, t_got>>

\* Variant: the flag is read again before the smoke test.
CInitSmoke_recheck(t) ==
    /\ t_pc[t] = "init_smoke"
    /\ IF inst_initialized[t_got[t]]
       THEN UNCHANGED <<inst_smokes, inst_initialized>>
       ELSE /\ inst_smokes' = [inst_smokes EXCEPT ![t_got[t]] = @ + 1]
            /\ \E ok \in BOOLEAN :
                  inst_initialized' = [inst_initialized EXCEPT ![t_got[t]] = IF ok THEN TRUE ELSE @]
    /\ t_pc' = [t_pc EXCEPT ![t] = "done"]
    /\ UNCHANGED <<chatbot_instance, created, t_new, t_got>>

\* initialize(): generate_content("Say hello"); self._initialized = True
CInitSmoke(t) ==
    /\ t_pc[t] = "init_smoke"
    /\ inst_smokes' = [inst_smokes EXCEPT ![t_got[t]] = @ + 1]
    /\ \E ok \in BOOLEAN :
          inst_initialized' = [inst_initialized EXCEPT ![t_got[t]] = IF ok THEN TRUE ELSE @]
    /\ t_pc' = [t_pc EXCEPT ![t] = "done"]
    /\ UNCHANGED <<chatbot_instance, created, t_new, t_got>>

ConcNext ==
    \E t \in Contexts :
        \/ GcCheck(t) /\ UNCHANGED <<coreVars, sumVars, uiVars, fmtVars>>
        \/ GcConstruct(t) /\ UNCHANGED <<coreVars, sumVars, uiVars, fmtVars>>
        \/ GcAssign(t) /\ UNCHANGED <<coreVars, sumVars, uiVars, fmtVars>>
        \/ GcReturn(t) /\ UNCHANGED <<coreVars, sumVars, uiVars, fmtVars>>
        \/ CQueryEntry(t) /\ UNCHANGED <<coreVars, sumVars, uiVars, fmtVars>>
        \/ CInitEntry(t) /\ UNCHANGED <<coreVars, sumVars, uiVars, fmtVars>>
        \/ CInitStep(t) /\ UNCHANGED <<coreVars, sumVars, uiVars, fmtVars>>
        \/ CInitSmoke(t) /\ UNCHANGED <<coreVars, sumVars, uiVars, fmtVars>>

ConcSpec == ConcInit /\ [][ConcNext]_vars

(***************************************************************************)
(* Observations used by the properties.                                     *)
(***************************************************************************)
QueryDone == pc = "idle" /\ caller = "query"

HasCall(site, ok) == \E i \in DOMAIN calls : calls[i].site = site /\ calls[i].ok = ok

Made(site) == \E i \in DOMAIN calls : calls[i].site = site

InitSites == {"index", "store", "key", "smoke"}
GenSites == {"rag_gen", "direct_gen"}
SearchSites == {"search6", "search3"}
PipelineStages == {"rate", "search6", "rag_gen", "direct_gen", "fallback"}

CountCalls(sites) == Cardinality({i \in DOMAIN calls : calls[i].site \in sites})

\* No generation call of the call in progress / last finished has failed.
GenerationSucceeds == \A i \in DOMAIN calls :
    calls[i].site \in GenSites \cup {"smoke"} => calls[i].ok

Returned6(n) == \E i \in DOMAIN calls :
    calls[i].site = "search6" /\ calls[i].ok /\ calls[i].n = n

Returned3(n) == \E i \in DOMAIN calls :
    calls[i].site = "search3" /\ calls[i].ok /\ calls[i].n = n

WellFormed(r) ==
    /\ r.status = "returned"
    /\ r.answer.kind \in AnswerKinds
    /\ r.source_documents \in SearchResults(TopK)

(***************************************************************************)
(* C1: query() never raises past its boundary: whatever the outcomes of     *)
(* initialization, of the searches and of the generation calls, a finished  *)
(* query has returned a well-formed AnswerResult (an answer and a sequence  *)
(* of source documents), and no call is ever left with an exception.        *)
(***************************************************************************)
C1_QueryNeverRaises ==
    /\ ret.status # "raised"
    /\ QueryDone => WellFormed(ret)

\* Total failure: both searches raised, and the query still returned.
C1_Witness ==
    /\ QueryDone
    /\ HasCall("search6", FALSE)
    /\ HasCall("search3", FALSE)
    /\ WellFormed(ret)

(***************************************************************************)
(* C2: the fallback chain is strictly ordered.  A failed generation call of *)
(* the RAG path is followed by the direct path's generation call, a failed  *)
(* direct generation call by the terminal fallback's k=3 search, and a      *)
(* failed k=3 search by the static unavailable message; no stage is         *)
(* skipped, so the k=3 search never directly follows the RAG failure.       *)
(***************************************************************************)
C2_FallbackOrder ==
    \A i \in DOMAIN calls :
        /\ (calls[i].site = "rag_gen" /\ ~calls[i].ok) =>
              IF i < Len(calls)
              THEN calls[i + 1].site = "direct_gen"
              ELSE pc = "direct_gen"
        /\ (calls[i].site = "direct_gen" /\ ~calls[i].ok) =>
              IF i < Len(calls)
              THEN calls[i + 1].site = "search3"
              ELSE pc = "fallback"
        /\ (calls[i].site = "search3" /\ ~calls[i].ok) =>
              /\ i = Len(calls)
              /\ pc = "idle"
              /\ ret.answer.kind = "unavailable"

\* The whole chain was walked: RAG failed, direct failed, the digest failed.
C2_Witness ==
    /\ QueryDone
    /\ HasCall("rag_gen", FALSE)
    /\ HasCall("direct_gen", FALSE)
    /\ HasCall("search3", FALSE)
    /\ ret.answer.kind = "unavailable"

(***************************************************************************)
(* C3: when the k=6 search returns at least one document and generation     *)
(* succeeds, the result carries as many source documents as were retrieved  *)
(* and its answer has the citation footer listing the distinct page         *)
(* identifiers in ascending order, for every retrieved set, sets that mix   *)
(* a missing page ('N/A') with numeric pages included.                      *)
(***************************************************************************)
ListsPagesAscending(pages, d) ==
    /\ {pages[i] : i \in DOMAIN pages} = PageSet(d)
    /\ \A i, j \in DOMAIN pages : i < j => pages[i] # pages[j]
    /\ \A i, j \in DOMAIN pages :
          (i < j /\ pages[i] # NA /\ pages[j] # NA) => pages[i] < pages[j]

C3_RagAnswerForEveryRetrievedSet ==
    (QueryDone /\ GenerationSucceeds /\ \E n \in 1..TopK : Returned6(n)) =>
        /\ ret.answer.kind = "rag"
        /\ Len(ret.source_documents) = Len(docs)
        /\ ListsPagesAscending(ret.answer.pages, docs)

(***************************************************************************)
(* C4: when the k=6 search returns no document and generation succeeds,     *)
(* the result is the direct answer (general-knowledge disclaimer) with no   *)
(* source documents, after exactly one generation call of the answer        *)
(* pipeline and no further search.                                          *)
(***************************************************************************)
C4_DirectAnswerOnZeroDocuments ==
    (QueryDone /\ GenerationSucceeds /\ Returned6(0)) =>
        /\ ret.answer.kind = "direct"
        /\ ret.source_documents = <<>>
        /\ CountCalls(GenSites) = 1
        /\ HasCall("direct_gen", TRUE)
        /\ CountCalls(SearchSites) = 1

C4_Witness ==
    /\ QueryDone
    /\ GenerationSucceeds
    /\ Returned6(0)
    /\ ret.answer.kind = "direct"

(***************************************************************************)
(* C5: any two consecutive generation calls of the process (smoke test,     *)
(* RAG path, direct path, within one query or across queries) are at least  *)
(* min_call_interval apart.                                                 *)
(***************************************************************************)
C5_GenerationCallsSpaced ==
    Len(gens) = 2 => gens[2] - gens[1] >= min_call_interval

(***************************************************************************)
(* C6: last_call_time is updated after every generation call, succeeded or  *)
(* failed, whichever branch issued it: once a generation call has been      *)
(* made, it holds the time of the last one.                                 *)
(***************************************************************************)
C6_TimestampAfterEveryGeneration ==
    gens # <<>> => last_call_time = gens[Len(gens)]

(***************************************************************************)
(* C7: a failing initialization step leaves initialized false and makes     *)
(* the query return the static initialization-failed result with no source  *)
(* documents; a query never runs its pipeline uninitialized, every query    *)
(* made while initialized is false goes through the initialization sequence *)
(* from its first step, and initialization succeeds once all steps do.      *)
(***************************************************************************)
C7_InitializationFailure ==
    /\ (caller = "query" /\ pc \in PipelineStages) => initialized
    /\ (QueryDone /\ \E s \in InitSites : HasCall(s, FALSE)) =>
          /\ ~initialized
          /\ ret = init_failed_result
          /\ ~calls[Len(calls)].ok
          /\ CountCalls(GenSites \cup SearchSites) = 0
    /\ (QueryDone /\ ~initialized) =>
          /\ calls # <<>>
          /\ calls[1].site = "index"
    /\ (QueryDone /\ \A s \in InitSites : HasCall(s, TRUE)) =>
          /\ initialized
          /\ ret.answer.kind # "initfailed"

\* A second failed attempt: an earlier smoke test was made, this query made
\* another one, it failed, and the query returned the static result.
C7_Witness ==
    /\ QueryDone
    /\ HasCall("smoke", FALSE)
    /\ Len(gens) = 2
    /\ ~initialized
    /\ ret = init_failed_result

(***************************************************************************)
(* C8: initialized is monotonic and initialize() idempotent.  No step sets  *)
(* either flag back to false; initialized changes only in initialize() and  *)
(* last_call_time only in a generation call; once initialized, a call of    *)
(* initialize() or initialize_qa_chain() returns true at once, without a    *)
(* gateway call.                                                            *)
(***************************************************************************)
C8_Step ==
    /\ initialized => initialized'
    /\ qa_initialized => qa_initialized'
    /\ initialized' # initialized => pc = "init_smoke"
    /\ last_call_time' # last_call_time =>
          /\ pc \in GenSites
          /\ gens' = NoteGen(gens)
          /\ last_call_time' = now
    /\ (pc = "idle" /\ initialized /\ now' = now /\ caller' # "query") =>
          /\ pc' = "idle"
          /\ ret' = ReturnedBool(TRUE)
          /\ calls' = <<>>
          /\ gens' = gens

C8_InitializeIdempotent == [][C8_Step]_vars

\* initialize_qa_chain() was called after a lazy initialization through
\* query(): it returned true with no gateway call.
C8_Witness ==
    /\ pc = "idle"
    /\ caller \in {"initialize", "initialize_qa_chain"}
    /\ initialized
    /\ calls = <<>>
    /\ ret = ReturnedBool(TRUE)
    /\ gens # <<>>

(***************************************************************************)
(* C9: when the k=6 search raises and the k=3 search of the terminal        *)
(* fallback raises too, the result is exactly the static unavailable        *)
(* message with no source documents, and the answer pipeline made no        *)
(* generation call for that query.                                          *)
(***************************************************************************)
C9_TerminalFloor ==
    (QueryDone /\ HasCall("search6", FALSE) /\ HasCall("search3", FALSE)) =>
        /\ ret = Returned(Answer("unavailable", <<>>, 0), <<>>)
        /\ CountCalls(GenSites) = 0

C9_Witness ==
    /\ QueryDone
    /\ HasCall("search6", FALSE)
    /\ HasCall("search3", FALSE)
    /\ ret.answer.kind = "unavailable"
    /\ ret.source_documents = <<>>

(***************************************************************************)
(* C10 as stated: in the terminal fallback, a k=3 search that fails and a   *)
(* k=3 search that returns nothing both give the static no-documents        *)
(* message with no source documents.                                        *)
(***************************************************************************)
C10_FailureOrEmptyGivesNoDocuments ==
    (QueryDone /\ (HasCall("search3", FALSE) \/ Returned3(0))) =>
        ret = Returned(Answer("nodocs", <<>>, 0), <<>>)

(***************************************************************************)
(* C10 amended: in the terminal fallback, a k=3 search that returns nothing *)
(* gives the static no-documents message with no source documents; a k=3    *)
(* search that fails gives the static unavailable message with no source    *)
(* documents.                                                               *)
(***************************************************************************)
C10_EmptyGivesNoDocuments ==
    /\ (QueryDone /\ Returned3(0)) =>
          ret = Returned(Answer("nodocs", <<>>, 0), <<>>)
    /\ (QueryDone /\ HasCall("search3", FALSE)) =>
          ret = Returned(Answer("unavailable", <<>>, 0), <<>>)

C10_Witness ==
    /\ QueryDone
    /\ Returned3(0)
    /\ ret.answer.kind = "nodocs"
    /\ ret.source_documents = <<>>

(***************************************************************************)
(* C11: when the direct path's generation call fails, or the k=6 search     *)
(* raises, the terminal fallback searches again with k=3; if that search    *)
(* returns at least one document the result is the document digest of       *)
(* those documents, and source_documents is exactly the k=3 result, not the *)
(* k=6 one.                                                                 *)
(***************************************************************************)
C11_DigestOfReducedSearch ==
    /\ (QueryDone /\ (HasCall("direct_gen", FALSE) \/ HasCall("search6", FALSE))) =>
          calls[Len(calls)].site = "search3"
    /\ (QueryDone /\ \E n \in 1..FallbackK : Returned3(n)) =>
          /\ ret.status = "returned"
          /\ ret.answer.kind = "digest"
          /\ ret.source_documents = fallback_docs
          /\ Len(fallback_docs) <= FallbackK
          /\ ret.answer.pages = [i \in 1..Len(fallback_docs) |-> PageOf(fallback_docs[i])]
          /\ ret.answer.count = Len(fallback_docs)

\* The digest carries the k=3 documents while the k=6 search had returned others.
C11_Witness ==
    /\ QueryDone
    /\ HasCall("direct_gen", FALSE)
    /\ ret.answer.kind = "digest"
    /\ docs # <<>>
    /\ fallback_docs # docs
    /\ ret.source_documents = fallback_docs

(***************************************************************************)
(* C12 as stated: source_documents is non-empty only when the RAG path was  *)
(* taken for that query (the RAG generation call was made).                 *)
(***************************************************************************)
C12_SourcesOnlyOnRagPath ==
    (QueryDone /\ ret.source_documents # <<>>) => Made("rag_gen")

(***************************************************************************)
(* C12 amended: source_documents is non-empty only in a RAG answer or in a  *)
(* document digest, whichever way the digest was reached (also after a      *)
(* failed k=6 search or a failed direct path, with no RAG call); a RAG      *)
(* answer is given only on the RAG path; the direct answer and every static *)
(* message (initialization failed, no documents, unavailable) have no       *)
(* source documents.                                                        *)
(***************************************************************************)
C12_SourcesOnlyInRagOrDigest ==
    QueryDone =>
        /\ ret.source_documents # <<>> => ret.answer.kind \in {"rag", "digest"}
        /\ ret.answer.kind = "rag" => HasCall("rag_gen", TRUE)
        /\ ret.answer.kind = "digest" => ret.source_documents # <<>>
        /\ ret.answer.kind \in {"direct", "initfailed", "nodocs", "unavailable"} =>
              ret.source_documents = <<>>

\* A direct answer given after the RAG path had documents and lost them.
C12_Witness ==
    /\ QueryDone
    /\ ret.answer.kind = "direct"
    /\ docs # <<>>
    /\ ret.source_documents = <<>>

(***************************************************************************)
(* C13: relevance policy.  After a successful k=6 search the next stage is  *)
(* the RAG generation call if and only if at least one document came back,  *)
(* and the direct generation call if and only if none did, whatever the     *)
(* documents are.                                                           *)
(***************************************************************************)
C13_RelevancePolicy ==
    \A i \in DOMAIN calls :
        (calls[i].site = "search6" /\ calls[i].ok) =>
            /\ calls[i].n = Len(docs)
            /\ IF i < Len(calls)
               THEN /\ calls[i + 1].site = "rag_gen" <=> calls[i].n >= 1
                    /\ calls[i + 1].site = "direct_gen" <=> calls[i].n = 0
               ELSE /\ pc = "rag_gen" <=> calls[i].n >= 1
                    /\ pc = "direct_gen" <=> calls[i].n = 0

\* The RAG path was entered with documents none of which has a page.
C13_Witness ==
    /\ pc = "rag_gen"
    /\ docs # <<>>
    /\ PageSet(docs) = {NA}
    /\ calls[Len(calls)].site = "search6"

(***************************************************************************)
(* C14 as stated: a k=6 search that raises is handled like one that returns *)
(* no document: the stage that follows is the same.                         *)
(***************************************************************************)
C14_FailureHandledAsZeroDocuments ==
    (calls # <<>> /\ calls[Len(calls)].site = "search6" /\ ~calls[Len(calls)].ok) =>
        pc = first_stage(<<>>)

(***************************************************************************)
(* C14 amended: neither a k=6 search that raises nor one that returns no    *)
(* document leads to the RAG path, but the stages differ: a search that     *)
(* raises goes straight to the terminal fallback (the k=3 search, with no   *)
(* generation call in that query), a search that returns no document goes   *)
(* to the direct path's generation call and reaches the terminal fallback   *)
(* only if that call fails.                                                 *)
(***************************************************************************)
C14_FailureSkipsDirectPath ==
    \A i \in DOMAIN calls :
        /\ (calls[i].site = "search6" /\ ~calls[i].ok) =>
              /\ IF i < Len(calls) THEN calls[i + 1].site = "search3" ELSE pc = "fallback"
              /\ CountCalls(GenSites) = 0
        /\ (calls[i].site = "search6" /\ calls[i].ok /\ calls[i].n = 0) =>
              /\ IF i < Len(calls) THEN calls[i + 1].site = "direct_gen" ELSE pc = "direct_gen"
              /\ ~Made("rag_gen")
              /\ Made("search3") => HasCall("direct_gen", FALSE)

\* After a k=6 search that raised, the query ended in the terminal fallback.
C14_Witness ==
    /\ QueryDone
    /\ HasCall("search6", FALSE)
    /\ Made("search3")
    /\ CountCalls(GenSites) = 0

(***************************************************************************)
(* C17: the initialization sequence runs in the order index check, index    *)
(* handle, credential, smoke test and stops at the first failing step: each *)
(* step is made only after all earlier ones succeeded, and initialized is   *)
(* true after a sequence only if its smoke test succeeded.                  *)
(***************************************************************************)
InitOrder == <<"index", "store", "key", "smoke">>

C17_InitializationOrder ==
    /\ \A i \in DOMAIN calls :
          calls[i].site \in InitSites =>
              /\ i <= Len(InitOrder)
              /\ calls[i].site = InitOrder[i]
              /\ \A j \in 1..(i - 1) : calls[j].ok
    /\ pc \in {"init_index", "init_store", "init_key", "init_smoke"} => ~initialized
    /\ pc = "init_index" => calls = <<>>
    /\ pc = "init_store" => Len(calls) = 1
    /\ pc = "init_key" => Len(calls) = 2 /\ vector_store
    /\ pc = "init_smoke" => Len(calls) = 3
    /\ Made("index") => (initialized <=> HasCall("smoke", TRUE))

\* The sequence stopped at the credential: no smoke test was made.
C17_Witness ==
    /\ pc = "idle"
    /\ HasCall("key", FALSE)
    /\ Len(calls) = 3
    /\ vector_store
    /\ ~initialized

(***************************************************************************)
(* C19: the summary _summarize_content returns is never longer than         *)
(* max_length, the ellipsis marker included.                                *)
(***************************************************************************)
C19_SummaryWithinCap ==
    sum_pc = "done" => Len(sum_result) <= sum_cap

(***************************************************************************)
(* C20: sentence-aware summarization.  A content not longer than the cap is *)
(* returned unchanged.  For a longer content the summary is made of the     *)
(* first j whole sentences of the content, for some j >= 0, each followed   *)
(* by '. ', stripped, and then the ellipsis marker: no sentence or word is  *)
(* cut.  For "A. B. C. D." and cap 5 it is one sentence and the marker.     *)
(***************************************************************************)
RECURSIVE JoinFirst(_, _)
JoinFirst(sentences, j) ==
    IF j = 0
    THEN <<>>
    ELSE JoinFirst(sentences, j - 1) \o sentences[j] \o <<".", " ">>

C20_WholeSentences ==
    sum_pc = "done" =>
        /\ Len(sum_content) <= sum_cap => sum_result = sum_content
        /\ Len(sum_content) > sum_cap =>
              \E j \in 0..Len(Split(sum_content)) :
                  /\ sum_result = Strip(JoinFirst(Split(sum_content), j)) \o <<".", ".">>
                  /\ \A i \in 1..j : Strip(Split(sum_content)[i]) # <<>>
        /\ (sum_content = ExampleContent /\ sum_cap = 5) =>
              sum_result = <<"A", ".", ".", ".">>

\* A content longer than the cap whose summary keeps two whole sentences.
C20_Witness ==
    /\ sum_pc = "done"
    /\ Len(sum_content) > sum_cap
    /\ sum_result = <<"a", ".", " ", "a", ".", ".", ".">>

(***************************************************************************)
(* main.py, initialize_chatbot(): the UI starts initialize_qa_chain() in a  *)
(* daemon thread and polls it, giving up after `timeout`.  The thread runs  *)
(* the core's initialization steps; it is alive until its call returns,     *)
(* whether or not the UI is still waiting for it.                           *)
(***************************************************************************)
timeout == 60

ThreadAlive == th_pc \in {"started", "running"}

\* `st.session_state.chatbot = chatbot` ... `return True`
StoreInSession ==
    /\ ss_chatbot' = TRUE
    /\ ss_chatbot_initialized' = TRUE
    /\ ss_setup_complete' = TRUE
    /\ ui_ret' = "True"
    /\ ui_deleted' = IF ui_deleted = "pending" THEN "reinitialized" ELSE ui_deleted

\* What follows the polling loop: `if init_error[0]: ... return False`, else
\* the progress messages and the session state.  initialize_qa_chain() lets
\* no exception out, so init_target never sets init_error[0].
AfterWait ==
    /\ IF init_error
       THEN /\ ui_ret' = "False"
            /\ UNCHANGED <<ss_chatbot, ss_chatbot_initialized, ss_setup_complete,
                           ui_deleted>>
       ELSE StoreInSession
    /\ ui_pc' = "idle"
    /\ ui_waited' = 0
    /\ UNCHANGED pq_log

\* initialize_chatbot() up to the start of the thread, or to its return when
\* there is nothing to wait for.  A new call is taken once the thread of the
\* previous one has ended.
InitializeChatbot ==
    /\ ui_pc = "idle"
    /\ ~ThreadAlive
    /\ ui_timed_out' = FALSE
    /\ init_error' = FALSE
    /\ \E exists \in BOOLEAN :
          IF ~exists
          THEN /\ ui_ret' = "False"
               /\ UNCHANGED <<ui_pc, ui_waited, th_pc, ss_chatbot,
                              ss_chatbot_initialized, ss_setup_complete, ui_deleted>>
          ELSE IF qa_initialized
               THEN /\ StoreInSession
                    /\ UNCHANGED <<ui_pc, ui_waited, th_pc>>
               ELSE /\ th_pc' = "started"
                    /\ ui_pc' = "poll"
                    /\ ui_waited' = 0
                    /\ ui_ret' = "running"
                    /\ UNCHANGED <<ss_chatbot, ss_chatbot_initialized, ss_setup_complete,
                                   ui_deleted>>
    /\ UNCHANGED pq_log
    /\ UNCHANGED coreVars

\* The thread's position after one of its steps: it ends when its call returns.
ThreadAfter(core_pc) == IF core_pc = "idle" THEN "dead" ELSE "running"

ThreadUI ==
    UNCHANGED <<ui_pc, ui_waited, init_error, ui_timed_out,
                ss_chatbot, ss_chatbot_initialized, ss_setup_complete, ui_ret,
                ui_deleted, pq_log>>

\* init_target: chatbot.initialize_qa_chain()
ThreadCall ==
    /\ th_pc = "started"
    /\ InitializeQaChain
    /\ th_pc' = ThreadAfter(pc')
    /\ ThreadUI

ThreadInitIndex ==
    /\ th_pc = "running"
    /\ InitIndex
    /\ th_pc' = ThreadAfter(pc')
    /\ ThreadUI

ThreadInitStore ==
    /\ th_pc = "running"
    /\ InitStore
    /\ th_pc' = ThreadAfter(pc')
    /\ ThreadUI

ThreadInitKey ==
    /\ th_pc = "running"
    /\ InitKey
    /\ th_pc' = ThreadAfter(pc')
    /\ ThreadUI

ThreadInitSmoke ==
    /\ th_pc = "running"
    /\ InitSmoke
    /\ th_pc' = ThreadAfter(pc')
    /\ ThreadUI

\* `while init_thread.is_alive():` ... `time.sleep(0.1)`, the time having
\* moved on by one unit when the loop looks again.
PollSleep ==
    /\ ui_pc = "poll"
    /\ ThreadAlive
    /\ ~(ui_waited > timeout)
    /\ ui_waited' = ui_waited + 1
    /\ UNCHANGED <<ui_pc, th_pc, init_error, ui_timed_out,
                   ss_chatbot, ss_chatbot_initialized, ss_setup_complete, ui_ret,
                   ui_deleted, pq_log>>
    /\ UNCHANGED coreVars

\* `if time.time() - start_time > timeout: st.error(...); break`, and the
\* rest of the function.
PollTimeout ==
    /\ ui_pc = "poll"
    /\ ThreadAlive
    /\ ui_waited > timeout
    /\ ui_timed_out' = TRUE
    /\ AfterWait
    /\ UNCHANGED <<th_pc, init_error>>
    /\ UNCHANGED coreVars

\* The loop ends because the thread has ended, and the rest of the function.
PollJoined ==
    /\ ui_pc = "poll"
    /\ ~ThreadAlive
    /\ AfterWait
    /\ UNCHANGED <<th_pc, init_error, ui_timed_out>>
    /\ UNCHANGED coreVars

\* delete_vector_store() of main.py: the session is cleared only when the
\* manager's delete returned True; a False or an exception changes nothing.
DeleteVectorStore ==
    /\ ui_pc = "idle"
    /\ \E deleted \in BOOLEAN :
          IF deleted
          THEN /\ ss_setup_complete' = FALSE
               /\ ss_chatbot' = FALSE
               /\ ss_chatbot_initialized' = FALSE
               /\ ui_deleted' = "pending"
               /\ pq_log' = <<>>
          ELSE UNCHANGED <<ss_setup_complete, ss_chatbot, ss_chatbot_initialized,
                           ui_deleted, pq_log>>
    /\ UNCHANGED <<ui_pc, ui_waited, th_pc, init_error, ui_timed_out, ui_ret>>
    /\ UNCHANGED coreVars

\* The last two entries of the log with one more.
NotePq(log, what) == IF Len(log) < 2 THEN Append(log, what) ELSE <<log[2], what>>

\* Variant: the question is passed to the chatbot whatever the session holds.
process_question_guard_any(chatbot, setup_complete) == "query"

\* process_question: `if st.session_state.chatbot and st.session_state.setup_complete:`
process_question_guard(chatbot, setup_complete) ==
    IF chatbot /\ setup_complete THEN "query" ELSE "warning"

\* process_question(prompt) up to its call of chatbot.query(prompt), or the
\* whole of it when it only warns.  The core takes one call at a time.
ProcessQuestion ==
    /\ ui_pc = "idle"
    /\ pc = "idle"
    /\ pq_log' = NotePq(pq_log, process_question_guard(ss_chatbot, ss_setup_complete))
    /\ IF process_question_guard(ss_chatbot, ss_setup_complete) = "query"
       THEN Query /\ ui_pc' = "asking"
       ELSE UNCHANGED coreVars /\ UNCHANGED ui_pc
    /\ UNCHANGED <<ui_waited, th_pc, init_error, ui_timed_out, ss_chatbot,
                   ss_chatbot_initialized, ss_setup_complete, ui_ret, ui_deleted>>

\* process_question has its response when the query has returned.
AskAfter(core_pc) == IF core_pc = "idle" THEN "answered" ELSE "asking"

AskUI ==
    UNCHANGED <<ui_waited, th_pc, init_error, ui_timed_out, ss_chatbot,
                ss_chatbot_initialized, ss_setup_complete, ui_ret, ui_deleted, pq_log>>

\* The steps of st.session_state.chatbot.query(prompt).
AskInitIndex == ui_pc = "asking" /\ InitIndex /\ ui_pc' = AskAfter(pc') /\ AskUI

AskInitStore == ui_pc = "asking" /\ InitStore /\ ui_pc' = AskAfter(pc') /\ AskUI

AskInitKey == ui_pc = "asking" /\ InitKey /\ ui_pc' = AskAfter(pc') /\ AskUI

AskInitSmoke == ui_pc = "asking" /\ InitSmoke /\ ui_pc' = AskAfter(pc') /\ AskUI

AskRateLimit == ui_pc = "asking" /\ RateLimit /\ ui_pc' = AskAfter(pc') /\ AskUI

AskSearch6 == ui_pc = "asking" /\ Search6 /\ ui_pc' = AskAfter(pc') /\ AskUI

AskRagGen == ui_pc = "asking" /\ RagGen /\ ui_pc' = AskAfter(pc') /\ AskUI

AskDirectGen == ui_pc = "asking" /\ DirectGen /\ ui_pc' = AskAfter(pc') /\ AskUI

AskFallback == ui_pc = "asking" /\ Fallback /\ ui_pc' = AskAfter(pc') /\ AskUI

\* process_question shows the response and returns: the response and the
\* locals of query() are gone, what the chatbot keeps stays.
ProcessQuestionReturn ==
    /\ ui_pc = "answered"
    /\ ui_pc' = "idle"
    /\ docs' = <<>>
    /\ fallback_docs' = <<>>
    /\ ret' = Running
    /\ calls' = <<>>
    /\ UNCHANGED <<initialized, qa_initialized, vector_store, client, last_call_time,
                   now, pc, caller, gens>>
    /\ AskUI

UINext ==
    \/ InitializeChatbot /\ UNCHANGED <<sumVars, concVars, fmtVars>>
    \/ ThreadCall /\ UNCHANGED <<sumVars, concVars, fmtVars>>
    \/ ThreadInitIndex /\ UNCHANGED <<sumVars, concVars, fmtVars>>
    \/ ThreadInitStore /\ UNCHANGED <<sumVars, concVars, fmtVars>>
    \/ ThreadInitKey /\ UNCHANGED <<sumVars, concVars, fmtVars>>
    \/ ThreadInitSmoke /\ UNCHANGED <<sumVars, concVars, fmtVars>>
    \/ PollSleep /\ UNCHANGED <<sumVars, concVars, fmtVars>>
    \/ PollTimeout /\ UNCHANGED <<sumVars, concVars, fmtVars>>
    \/ PollJoined /\ UNCHANGED <<sumVars, concVars, fmtVars>>
    \/ DeleteVectorStore /\ UNCHANGED <<sumVars, concVars, fmtVars>>
    \/ ProcessQuestion /\ UNCHANGED <<sumVars, concVars, fmtVars>>
    \/ AskInitIndex /\ UNCHANGED <<sumVars, concVars, fmtVars>>
    \/ AskInitStore /\ UNCHANGED <<sumVars, concVars, fmtVars>>
    \/ AskInitKey /\ UNCHANGED <<sumVars, concVars, fmtVars>>
    \/ AskInitSmoke /\ UNCHANGED <<sumVars, concVars, fmtVars>>
    \/ AskRateLimit /\ UNCHANGED <<sumVars, concVars, fmtVars>>
    \/ AskSearch6 /\ UNCHANGED <<sumVars, concVars, fmtVars>>
    \/ AskRagGen /\ UNCHANGED <<sumVars, concVars, fmtVars>>
    \/ AskDirectGen /\ UNCHANGED <<sumVars, concVars, fmtVars>>
    \/ AskFallback /\ UNCHANGED <<sumVars, concVars, fmtVars>>
    \/ ProcessQuestionReturn /\ UNCHANGED <<sumVars, concVars, fmtVars>>

UISpec == Init /\ [][UINext]_vars

(***************************************************************************)
(* C15: the chatbot is a process-wide singleton: whatever the interleaving  *)
(* of the contexts' get_chatbot() calls, at most one ConstitutionChatbot is *)
(* ever constructed, every call returns that one, and the global, once set, *)
(* holds the first instance for good.                                       *)
(***************************************************************************)
C15_Singleton ==
    /\ created <= 1
    /\ \A t, u \in Contexts : (t_got[t] # 0 /\ t_got[u] # 0) => t_got[t] = t_got[u]
    /\ chatbot_instance \in {0, 1}

(***************************************************************************)
(* C16: when the timeout elapses while the background initialization is     *)
(* still running, initialize_chatbot() treats the initialization as failed: *)
(* it does not return True and it leaves chatbot_initialized and            *)
(* setup_complete unset.                                                    *)
(***************************************************************************)
C16_TimeoutTreatedAsFailure ==
    (ui_pc = "idle" /\ ui_timed_out) =>
        /\ ui_ret # "True"
        /\ ~ss_chatbot_initialized
        /\ ~ss_setup_complete

(***************************************************************************)
(* C18: nothing serializes the contexts on the initialized flag.  A context *)
(* that reads the flag false in query() and again in initialize() starts    *)
(* the initialization sequence, and one that reached the smoke test makes   *)
(* the generation call, whatever the other contexts have done to the same   *)
(* chatbot meanwhile: so the sequence, smoke test included, can run twice   *)
(* on one chatbot.                                                          *)
(***************************************************************************)
C18_Step ==
    \A t \in Contexts :
        /\ (t_pc[t] = "q_entry" /\ t_pc'[t] # "q_entry" /\ ~inst_initialized[t_got[t]]) =>
              t_pc'[t] = "init_entry"
        /\ (t_pc[t] = "init_entry" /\ t_pc'[t] # "init_entry" /\ ~inst_initialized[t_got[t]]) =>
              t_pc'[t] = "init_index"
        /\ (t_pc[t] = "init_smoke" /\ t_pc'[t] # "init_smoke") =>
              inst_smokes'[t_got[t]] = inst_smokes[t_got[t]] + 1

C18_InitializationNotSerialized == [][C18_Step]_vars

\* Two contexts were given the same chatbot and each made a smoke test on it.
C18_Witness ==
    \E t, u \in Contexts :
        /\ t # u
        /\ t_got[t] # 0
        /\ t_got[t] = t_got[u]
        /\ t_pc[t] = "done"
        /\ t_pc[u] = "done"
        /\ inst_smokes[t_got[t]] >= 2
        /\ inst_initialized[t_got[t]]

(***************************************************************************)
(* C21: when _format_rag_answer returns, the footer lists at most 5 page    *)
(* identifiers: the 5 smallest distinct page identifiers of the documents   *)
(* (all of them when there are fewer), strictly ascending, and the          *)
(* 'Documents Analyzed' count is the number of documents, duplicates        *)
(* included.                                                                *)
(***************************************************************************)
C21_CitationFooter ==
    (fmt_pc = "done" /\ fmt_result.status = "returned") =>
        LET pages == fmt_result.answer.pages
            shown == {pages[i] : i \in DOMAIN pages}
            S     == PageSet(fmt_docs)
        IN  /\ Len(pages) <= 5
            /\ Len(pages) = (IF Cardinality(S) < 5 THEN Cardinality(S) ELSE 5)
            /\ \A i, j \in DOMAIN pages : i < j => pages[i] < pages[j]
            /\ shown \subseteq S
            /\ \A x \in S \ shown : \A y \in shown : y < x
            /\ fmt_result.answer.count = Len(fmt_docs)

\* Six documents with six distinct pages, not in ascending order: five are shown.
C21_Witness ==
    /\ fmt_pc = "done"
    /\ fmt_result.status = "returned"
    /\ Cardinality(PageSet(fmt_docs)) > 5
    /\ \E i \in 1..(Len(fmt_docs) - 1) : PageOf(fmt_docs[i]) > PageOf(fmt_docs[i + 1])
    /\ Len(fmt_result.answer.pages) = 5
    /\ fmt_result.answer.count = 6

(***************************************************************************)
(* C22: a query makes a bounded number of gateway calls and never goes back *)
(* to a stage.  Beyond the initialization smoke test it makes at most one   *)
(* RAG-path and one direct-path generation call, at most one k=6 and one    *)
(* k=3 search, its calls come in the fixed order of the stages, and the     *)
(* terminal fallback is entered at most once.                               *)
(***************************************************************************)
SiteRank(site) ==
    CASE site = "index" -> 1
      [] site = "store" -> 2
      [] site = "key" -> 3
      [] site = "smoke" -> 4
      [] site = "sleep" -> 5
      [] site = "search6" -> 6
      [] site = "rag_gen" -> 7
      [] site = "direct_gen" -> 8
      [] site = "search3" -> 9

C22_BoundedGatewayCalls ==
    caller = "query" =>
        /\ \A s \in GenSites \cup SearchSites : CountCalls({s}) <= 1
        /\ CountCalls(GenSites) <= 2
        /\ CountCalls(SearchSites) <= 2
        /\ CountCalls({"smoke"}) <= 1
        /\ \A i, j \in DOMAIN calls :
              i < j => SiteRank(calls[i].site) < SiteRank(calls[j].site)
        /\ pc = "fallback" => ~Made("search3")
        /\ Made("search3") => pc = "idle"

\* A query that initialized lazily and then used every gateway call it can:
\* the smoke test, both searches and both generation calls.
C22_Witness ==
    /\ QueryDone
    /\ Made("smoke")
    /\ CountCalls(GenSites) = 2
    /\ CountCalls(SearchSites) = 2
    /\ Len(calls) >= 8

(***************************************************************************)
(* C23: a query whose lazy initialization fails ends there and leaves the   *)
(* answer pipeline untouched.  While a query is in its initialization       *)
(* sequence last_call_time does not change, and the step on which the       *)
(* sequence fails returns the static result with initialized still false,   *)
(* last_call_time as it was, and no similarity search, no prompt generation *)
(* call and no rate-limiter sleep made by the query.                        *)
(***************************************************************************)
InitStages == {"init_index", "init_store", "init_key", "init_smoke"}

C23_Step ==
    /\ (caller' = "query" /\ (pc \in InitStages \/ pc' \in InitStages)) =>
          last_call_time' = last_call_time
    /\ (caller = "query" /\ pc \in InitStages /\ pc' = "idle") =>
          /\ ret' = init_failed_result
          /\ ~initialized
          /\ initialized' = initialized
          /\ last_call_time' = last_call_time
          /\ now' = now
          /\ \A i \in DOMAIN calls' :
                calls'[i].site \notin GenSites \cup SearchSites \cup {"sleep"}

C23_FailedInitializationIsInert == [][C23_Step]_vars

\* After time has passed, a query failed at the vector store step.
C23_Witness ==
    /\ QueryDone
    /\ ret = init_failed_result
    /\ HasCall("index", TRUE)
    /\ HasCall("store", FALSE)
    /\ Len(calls) = 2
    /\ now >= 2
    /\ ~initialized

(***************************************************************************)
(* C24: the wrapper's flag never claims a readiness the core does not have. *)
(* In every state reached by sequential calls, and at every step inside     *)
(* them, ConstitutionChatbot._initialized true implies                      *)
(* SmartLegalChatbot._initialized true.  The converse can fail: after a     *)
(* lazy initialization through query() the core is initialized and the      *)
(* wrapper's flag is still false.                                           *)
(***************************************************************************)
C24_WrapperFlagImpliesCoreFlag == qa_initialized => initialized

\* The converse fails: a query initialized the core, the wrapper's flag is false.
C24_Witness ==
    /\ QueryDone
    /\ HasCall("smoke", TRUE)
    /\ initialized
    /\ ~qa_initialized

(***************************************************************************)
(* C25: initialize_chatbot() marks the chatbot ready only if its            *)
(* initialization succeeded.  Once the function has returned, the session   *)
(* flags chatbot_initialized and setup_complete are true, or the function   *)
(* has returned True, only if initialize_qa_chain() succeeded; in           *)
(* particular not when it returned False in the background thread.          *)
(***************************************************************************)
C25_ReadyOnlyIfInitialized ==
    (ui_pc = "idle" /\ (ss_chatbot_initialized \/ ss_setup_complete \/ ui_ret = "True")) =>
        qa_initialized

(***************************************************************************)
(* C26: process_question passes a question to chatbot.query() only when the *)
(* session holds a chatbot and setup_complete is true.  A successful        *)
(* delete_vector_store() leaves the session without a chatbot and with      *)
(* chatbot_initialized and setup_complete false, and they stay so until an  *)
(* initialize_chatbot() returns True: until then no query is started.       *)
(***************************************************************************)
C26_Step ==
    /\ (pc = "idle" /\ pc' # "idle" /\ caller' = "query") =>
          /\ ui_pc = "idle"
          /\ ss_chatbot
          /\ ss_setup_complete
          /\ ui_deleted # "pending"
    /\ ui_deleted' = "pending" =>
          /\ ~ss_chatbot'
          /\ ~ss_chatbot_initialized'
          /\ ~ss_setup_complete'
    /\ (ui_deleted = "pending" /\ ui_deleted' # "pending") =>
          /\ ui_deleted' = "reinitialized"
          /\ ui_ret' = "True"

C26_QueryOnlyWhenSetUp == [][C26_Step]_vars

\* After a successful delete a question was refused; then, initialize_chatbot()
\* having returned True, a question was passed to the chatbot and answered.
C26_Witness ==
    /\ ui_pc = "idle"
    /\ ui_deleted = "reinitialized"
    /\ pq_log = <<"warning", "query">>
    /\ ss_chatbot
    /\ ss_setup_complete

====
